---- MODULE Spec2Model ----
(***************************************************************************)
(* Threat Mapping Service (services/threat-model/main.py): the score       *)
(* normalizer (_ensure_probability_array), the label selector              *)
(* (_predict_labels) and the prediction orchestrator (_run_prediction,     *)
(* predict, predict_batch), over the five artifacts loaded at import.      *)
(*                                                                         *)
(* Probabilities are levels 0..MaxScore (MaxScore stands for 1.0).         *)
(* Python sequences are 0-based; the model's are 1-based.                  *)
(***************************************************************************)
EXTENDS Integers, Sequences, FiniteSets, TLC

VARIABLES
  vectorizer,       \* main.py:92  the Feature Extractor artifact
  cwe_model,        \* main.py:93
  cwe_binarizer,    \* main.py:94
  capec_model,      \* main.py:95
  capec_binarizer,  \* main.py:96
  argsort_kind,     \* how this build's np.argsort orders equal keys
  request,          \* the last request served: route and payload items
  response,         \* what the last handler call returned or raised
  calls             \* collaborator methods invoked during the last call

vars == <<vectorizer, cwe_model, cwe_binarizer, capec_model, capec_binarizer,
          argsort_kind, request, response, calls>>

artifacts == <<vectorizer, cwe_model, cwe_binarizer, capec_model,
               capec_binarizer, argsort_kind>>

-----------------------------------------------------------------------------
(* Bounds *)

MaxTopK == 2
MaxScore == 2
MaxClasses == 2
MaxBatch == 2

-----------------------------------------------------------------------------
(* Python values *)

\* Python's None where a float is optional (LabelScore.score): a value
\* outside 0..MaxScore.
None == 0 - 1

Min(a, b) == IF a < b THEN a ELSE b

Reverse(s) == [i \in 1..Len(s) |-> s[Len(s) + 1 - i]]

RECURSIVE Concat(_)
Concat(ss) == IF ss = <<>> THEN <<>> ELSE Head(ss) \o Concat(Tail(ss))

RECURSIVE SumSeq(_)
SumSeq(s) == IF s = <<>> THEN 0 ELSE Head(s) + SumSeq(Tail(s))

\* A numpy array: 0-d (one value), 1-d (rows holds the one vector) or 2-d.
ndarray0(x) == [ndim |-> 0, shape |-> <<>>, rows |-> << <<x>> >>]
ndarray1(v) == [ndim |-> 1, shape |-> <<Len(v)>>, rows |-> <<v>>]
ndarray2(rows, ncols) == [ndim |-> 2, shape |-> <<Len(rows), ncols>>, rows |-> rows]

size(a) ==
  IF a.ndim = 0 THEN 1
  ELSE IF a.ndim = 1 THEN a.shape[1]
  ELSE a.shape[1] * a.shape[2]

\* dtype=np.float32: rounding to the nearest representable level. The even
\* levels are representable; an odd level rounds to the neighbour whose half
\* is even (round-half-to-even). Monotone, idempotent, and lossy.
Float32(x) == IF x % 2 = 0 THEN x ELSE IF x % 4 = 1 THEN x - 1 ELSE x + 1

asarray_float32(a) ==
  [a EXCEPT !.rows = [i \in 1..Len(a.rows) |->
                        [j \in 1..Len(a.rows[i]) |-> Float32(a.rows[i][j])]]]

\* entry[:, 1][:, None]: the second column, as a column.
SecondColumn(a) ==
  ndarray2([i \in 1..Len(a.rows) |-> <<a.rows[i][2]>>], 1)

\* entry[:, None] of a 1-d array: one row per element.
AsColumn(a) ==
  ndarray2([i \in 1..a.shape[1] |-> <<a.rows[1][i]>>], 1)

\* np.hstack of 2-d arrays; ValueError on no arrays or unequal row counts.
hstack(columns) ==
  IF columns = <<>> THEN [exc |-> "ValueError", arr |-> ndarray2(<<>>, 0)]
  ELSE IF \E i \in 1..Len(columns) : columns[i].shape[1] # columns[1].shape[1]
    THEN [exc |-> "ValueError", arr |-> ndarray2(<<>>, 0)]
  ELSE [exc |-> "",
        arr |-> ndarray2(
          [r \in 1..columns[1].shape[1] |->
             Concat([i \in 1..Len(columns) |-> columns[i].rows[r]])],
          SumSeq([i \in 1..Len(columns) |-> columns[i].shape[2]]))]

\* np.argsort(scores): the indices in ascending order of score. The default
\* kind is not a stable sort, so the order of equal keys is the build's:
\* "stable" keeps equal keys in index order, "unstable" reverses them.
argsort(scores, kind) ==
  LET n == Len(scores)
      Before(i, j) ==
        \/ scores[i] < scores[j]
        \/ scores[i] = scores[j] /\ (IF kind = "stable" THEN i < j ELSE i > j)
  IN [r \in 1..n |->
        CHOOSE i \in 1..n : Cardinality({j \in 1..n : Before(j, i)}) = r - 1]

-----------------------------------------------------------------------------
(* Score Normalizer *)

\* The one element of a singleton set: Only({F(x) : x \in {e}}) is F(e) with
\* e evaluated once, a local variable of the code.
Only(S) == CHOOSE x \in S : TRUE

\* What predict_proba returned: None, a Python list of per-class arrays, or
\* one array.
RawNone == [kind |-> "None", entries |-> <<>>, arr |-> ndarray2(<<>>, 0)]
RawList(entries) == [kind |-> "list", entries |-> entries, arr |-> ndarray2(<<>>, 0)]
RawArray(a) == [kind |-> "ndarray", entries |-> <<>>, arr |-> a]

\* The column the loop appends for one entry of the list (main.py:110-117).
EntryColumn(entry0) ==
  Only({ IF entry.ndim = 2 THEN
           IF entry.shape[2] = 2
             THEN [exc |-> "", arr |-> SecondColumn(entry)]
             ELSE [exc |-> "", arr |-> entry]
         ELSE IF entry.ndim = 1 THEN [exc |-> "", arr |-> AsColumn(entry)]
         ELSE [exc |-> "IndexError", arr |-> entry]
         : entry \in {asarray_float32(entry0)} })

_ensure_probability_array(raw) ==
  IF raw.kind = "None" THEN [exc |-> "", isNone |-> TRUE, arr |-> raw.arr]
  ELSE IF raw.kind = "list" THEN
    Only({ IF \E i \in 1..Len(cols) : cols[i].exc # ""
             THEN [exc |-> "IndexError", isNone |-> FALSE, arr |-> raw.arr]
             ELSE Only({ [exc |-> h.exc, isNone |-> FALSE, arr |-> h.arr]
                         : h \in {hstack([i \in 1..Len(cols) |-> cols[i].arr])} })
           : cols \in {[i \in 1..Len(raw.entries) |-> EntryColumn(raw.entries[i])]} })
  ELSE [exc |-> "", isNone |-> FALSE, arr |-> asarray_float32(raw.arr)]

-----------------------------------------------------------------------------
(* Collaborators: the classifier, its label codec, the feature extractor *)

Call(obj, method) == [obj |-> obj, method |-> method]

\* The terms of the vectorizer's vocabulary; a description's features are the
\* vocabulary terms that occur in it.
Vocabulary == {"y"}

FeatureKeys == SUBSET Vocabulary

\* The classes whose indicator is set in one row, in classes_ order.
RECURSIVE DecodeRow(_, _, _)
DecodeRow(classes_, bits, i) ==
  IF i > Len(classes_) THEN <<>>
  ELSE (IF bits[i] = 1 THEN <<classes_[i]>> ELSE <<>>) \o DecodeRow(classes_, bits, i + 1)

\* binarizer.inverse_transform(binary): one tuple of labels per row;
\* ValueError when a row's width is not the number of classes.
inverse_transform(binarizer, binary) ==
  IF binarizer.raises \/ \E r \in 1..Len(binary) : Len(binary[r]) # Len(binarizer.classes_)
    THEN [exc |-> "ValueError", val |-> <<>>]
    ELSE [exc |-> "",
          val |-> [r \in 1..Len(binary) |-> DecodeRow(binarizer.classes_, binary[r], 1)]]

-----------------------------------------------------------------------------
(* Label Selector *)

LabelScore(id, score) == [id |-> id, score |-> score]

\* SelectScored with the skip rule score <= threshold.
RECURSIVE SelectScored_SkipAtThreshold(_, _, _, _, _, _)
SelectScored_SkipAtThreshold(cand, i, scores, classes_, threshold, acc) ==
  IF i > Len(cand) THEN [exc |-> "", val |-> acc]
  ELSE IF scores[cand[i]] <= threshold
    THEN SelectScored_SkipAtThreshold(cand, i + 1, scores, classes_, threshold, acc)
  ELSE IF cand[i] > Len(classes_)
    THEN [exc |-> "IndexError", val |-> acc]
  ELSE Only({ SelectScored_SkipAtThreshold(cand, i + 1, scores, classes_, threshold, acc1)
              : acc1 \in {Append(acc, LabelScore(classes_[cand[i]], scores[cand[i]]))} })

\* The loop of main.py:139-143 over the candidates cand, from position i,
\* with acc the predictions appended so far. classes_[idx] past the end of
\* classes_ raises IndexError.
RECURSIVE SelectScored(_, _, _, _, _, _)
SelectScored(cand, i, scores, classes_, threshold, acc) ==
  IF i > Len(cand) THEN [exc |-> "", val |-> acc]
  ELSE IF scores[cand[i]] < threshold
    THEN SelectScored(cand, i + 1, scores, classes_, threshold, acc)
  ELSE IF cand[i] > Len(classes_)
    THEN [exc |-> "IndexError", val |-> acc]
  ELSE Only({ SelectScored(cand, i + 1, scores, classes_, threshold, acc1)
              : acc1 \in {Append(acc, LabelScore(classes_[cand[i]], scores[cand[i]]))} })

\* ProbabilityPath walking order instead of order[:top_k].
ProbabilityPath_NoTruncation(proba, binarizer, top_k, threshold) ==
  IF proba.ndim # 2 THEN [exc |-> "IndexError", val |-> <<>>]
  ELSE Only({ SelectScored(order, 1, proba.rows[1], binarizer.classes_, threshold, <<>>)
              : order \in {Reverse(argsort(proba.rows[1], argsort_kind))} })

\* ProbabilityPath without the [::-1].
ProbabilityPath_Ascending(proba, binarizer, top_k, threshold) ==
  IF proba.ndim # 2 THEN [exc |-> "IndexError", val |-> <<>>]
  ELSE Only({ SelectScored(SubSeq(order, 1, Min(top_k, Len(order))), 1,
                           proba.rows[1], binarizer.classes_, threshold, <<>>)
              : order \in {argsort(proba.rows[1], argsort_kind)} })

\* ProbabilityPath taking the row as already sorted.
ProbabilityPath_Unsorted(proba, binarizer, top_k, threshold) ==
  IF proba.ndim # 2 THEN [exc |-> "IndexError", val |-> <<>>]
  ELSE Only({ SelectScored(SubSeq(order, 1, Min(top_k, Len(order))), 1,
                           proba.rows[1], binarizer.classes_, threshold, <<>>)
              : order \in {[i \in 1..Len(proba.rows[1]) |-> i]} })

\* main.py:136-143, scores = proba[0] and order = np.argsort(scores)[::-1].
\* proba[0] of a 2-d array is its first row. Of a 1-d array it is a scalar,
\* whose argsort is [0] and which scores[idx] cannot index; a 0-d array
\* cannot be indexed at all: both raise IndexError.
ProbabilityPath(proba, binarizer, top_k, threshold) ==
  IF proba.ndim # 2 THEN [exc |-> "IndexError", val |-> <<>>]
  ELSE Only({ SelectScored(SubSeq(order, 1, Min(top_k, Len(order))), 1,
                           proba.rows[1], binarizer.classes_, threshold, <<>>)
              : order \in {Reverse(argsort(proba.rows[1], argsort_kind))} })

\* labels = decoded[0] if decoded else [], then labels[:top_k] with score
\* None (main.py:150-152).
DecodedLabels(decoded, top_k) ==
  Only({ [i \in 1..Min(top_k, Len(labels)) |-> LabelScore(labels[i], None)]
         : labels \in {IF decoded # <<>> THEN decoded[1] ELSE <<>>} })

\* main.py:145-152, with predictions empty.
HardLabelPath(model, binarizer, features, top_k) ==
  IF model.predict[features.terms].raises
    THEN [exc |-> "RuntimeError", val |-> <<>>,
          calls |-> <<Call(model.name, "predict")>>]
    ELSE Only({ [exc |-> decoded.exc,
                 val |-> IF decoded.exc = "" THEN DecodedLabels(decoded.val, top_k) ELSE <<>>,
                 calls |-> <<Call(model.name, "predict"),
                             Call(binarizer.name, "inverse_transform")>>]
                : decoded \in {inverse_transform(binarizer, model.predict[features.terms].binary)} })

\* main.py:133-134: proba, None without a predict_proba method.
Probabilities(model, features) ==
  IF ~model.has_predict_proba THEN [exc |-> "", isNone |-> TRUE, arr |-> RawNone.arr]
  ELSE IF model.predict_proba[features.terms].raises
    THEN [exc |-> "RuntimeError", isNone |-> TRUE, arr |-> RawNone.arr]
  ELSE _ensure_probability_array(model.predict_proba[features.terms].raw)

\* Scored with an exception of the probability path caught and predictions
\* left empty.
Scored_SwallowErrors(norm, binarizer, top_k, threshold) ==
  IF norm.exc # "" THEN [exc |-> "", val |-> <<>>]
  ELSE IF ~norm.isNone /\ size(norm.arr) # 0
    THEN Only({ IF p.exc # "" THEN [exc |-> "", val |-> <<>>] ELSE p
                : p \in {ProbabilityPath(norm.arr, binarizer, top_k, threshold)} })
  ELSE [exc |-> "", val |-> <<>>]

\* main.py:136-143: the predictions after the probability loop.
Scored(norm, binarizer, top_k, threshold) ==
  IF norm.exc # "" THEN [exc |-> norm.exc, val |-> <<>>]
  ELSE IF ~norm.isNone /\ size(norm.arr) # 0
    THEN ProbabilityPath(norm.arr, binarizer, top_k, threshold)
  ELSE [exc |-> "", val |-> <<>>]

\* _predict_labels falling back only when there is no probability array
\* (if proba is None instead of if not predictions).
_predict_labels_FallbackWithoutArray(model, binarizer, features, top_k, threshold) ==
  Only({ Only({ IF scored.exc # "" \/ (norm.exc = "" /\ ~norm.isNone /\ size(norm.arr) # 0)
                  THEN [exc |-> scored.exc, val |-> scored.val, calls |-> c0]
                  ELSE Only({ [exc |-> hard.exc, val |-> hard.val, calls |-> c0 \o hard.calls]
                              : hard \in {HardLabelPath(model, binarizer, features, top_k)} })
                : scored \in {Scored(norm, binarizer, top_k, threshold)} })
         : norm \in {Probabilities(model, features)},
           c0 \in {IF model.has_predict_proba
                     THEN <<Call(model.name, "predict_proba")>> ELSE <<>>} })

_predict_labels(model, binarizer, features, top_k, threshold) ==
  Only({ Only({ IF scored.exc # "" \/ scored.val # <<>>
                  THEN [exc |-> scored.exc, val |-> scored.val, calls |-> c0]
                  ELSE Only({ [exc |-> hard.exc, val |-> hard.val, calls |-> c0 \o hard.calls]
                              : hard \in {HardLabelPath(model, binarizer, features, top_k)} })
                : scored \in {Scored(norm, binarizer, top_k, threshold)} })
         : norm \in {Probabilities(model, features)},
           c0 \in {IF model.has_predict_proba
                     THEN <<Call(model.name, "predict_proba")>> ELSE <<>>} })

-----------------------------------------------------------------------------
(* Prediction Orchestrator *)

Whitespace == {" "}

RECURSIVE lstrip(_)
lstrip(s) == IF s # <<>> /\ Head(s) \in Whitespace THEN lstrip(Tail(s)) ELSE s

strip(s) == Reverse(lstrip(Reverse(lstrip(s))))

PredictionRequest(description, top_k, threshold) ==
  [description |-> description, top_k |-> top_k, threshold |-> threshold]

PredictionResponse(cwe, capec) == [cwe |-> cwe, capec |-> capec]

NoDetail == [msg |-> "", model |-> "", got |-> 0, expected |-> 0, error |-> ""]

HTTPException(status_code, detail) ==
  [status |-> status_code, detail |-> detail, results |-> <<>>]

Ok(results) == [status |-> 200, detail |-> NoDetail, results |-> results]

EmptyDescription == [NoDetail EXCEPT !.msg = "Description must not be empty"]

Mismatch(name, got, expected) ==
  [NoDetail EXCEPT !.msg = "Model-vectorizer mismatch", !.model = name,
                   !.got = got, !.expected = expected]

PredictionFailed(error) ==
  [NoDetail EXCEPT !.msg = "Prediction failed", !.error = error]

\* vectorizer.transform([description]): one row of vectorizer.n_features
\* columns, carrying the vocabulary terms of the description.
transform(description) ==
  [has_shape |-> vectorizer.has_shape,
   shape |-> <<1, vectorizer.n_features>>,
   terms |-> {description[i] : i \in 1..Len(description)} \cap Vocabulary]

\* FeatureCheck without the CAPEC block (main.py:213-225).
FeatureCheck_CweOnly(features) ==
  IF ~features.has_shape THEN Ok(<<>>)
  ELSE Only({ IF cwe_model.has_n_features_in_ /\ feature_count # cwe_model.n_features_in_
                THEN HTTPException(500, Mismatch("CWE", feature_count, cwe_model.n_features_in_))
              ELSE Ok(<<>>)
              : feature_count \in {IF features.shape[1] > 0 THEN features.shape[2] ELSE 0} })

\* main.py:196-225: the HTTPException of the first failing width check, or
\* status 200 when every check that runs passes.
FeatureCheck(features) ==
  IF ~features.has_shape THEN Ok(<<>>)
  ELSE Only({ IF cwe_model.has_n_features_in_ /\ feature_count # cwe_model.n_features_in_
                THEN HTTPException(500, Mismatch("CWE", feature_count, cwe_model.n_features_in_))
              ELSE IF capec_model.has_n_features_in_ /\ feature_count # capec_model.n_features_in_
                THEN HTTPException(500, Mismatch("CAPEC", feature_count, capec_model.n_features_in_))
              ELSE Ok(<<>>)
              : feature_count \in {IF features.shape[1] > 0 THEN features.shape[2] ELSE 0} })

\* main.py:231-243: the two taxonomy predictions, CWE first, and the
\* response; any exception of theirs becomes the 500 of main.py:241.
PredictBoth(features, payload, c1) ==
  Only({ IF cwe.exc # ""
           THEN [response |-> HTTPException(500, PredictionFailed(cwe.exc)),
                 calls |-> c1 \o cwe.calls]
           ELSE Only({ IF capec.exc # ""
                         THEN [response |-> HTTPException(500, PredictionFailed(capec.exc)),
                               calls |-> c1 \o cwe.calls \o capec.calls]
                         ELSE [response |-> Ok(<<PredictionResponse(cwe.val, capec.val)>>),
                               calls |-> c1 \o cwe.calls \o capec.calls]
                       : capec \in {_predict_labels(capec_model, capec_binarizer, features,
                                                    payload.top_k, payload.threshold)} })
         : cwe \in {_predict_labels(cwe_model, cwe_binarizer, features,
                                    payload.top_k, payload.threshold)} })

\* _run_prediction with the emptiness check after vectorizer.transform.
_run_prediction_TransformFirst(payload) ==
  Only({ IF vectorizer.raises
           THEN [response |-> HTTPException(500, PredictionFailed("ValueError")),
                 calls |-> <<Call("vectorizer", "transform")>>]
         ELSE IF description = <<>>
           THEN [response |-> HTTPException(400, EmptyDescription),
                 calls |-> <<Call("vectorizer", "transform")>>]
         ELSE Only({ IF check.status # 200
                       THEN [response |-> check, calls |-> <<Call("vectorizer", "transform")>>]
                       ELSE PredictBoth(features, payload, <<Call("vectorizer", "transform")>>)
                     : features \in {transform(description)},
                       check \in {FeatureCheck(transform(description))} })
         : description \in {strip(payload.description)} })

_run_prediction(payload) ==
  Only({ IF description = <<>>
           THEN [response |-> HTTPException(400, EmptyDescription), calls |-> <<>>]
         ELSE IF vectorizer.raises
           THEN [response |-> HTTPException(500, PredictionFailed("ValueError")),
                 calls |-> <<Call("vectorizer", "transform")>>]
         ELSE Only({ IF check.status # 200
                       THEN [response |-> check, calls |-> <<Call("vectorizer", "transform")>>]
                       ELSE PredictBoth(features, payload, <<Call("vectorizer", "transform")>>)
                     : features \in {transform(description)},
                       check \in {FeatureCheck(transform(description))} })
         : description \in {strip(payload.description)} })

\* BatchLoop leaving a failed item out and going on with the next.
RECURSIVE BatchLoop_SkipFailed(_, _, _, _)
BatchLoop_SkipFailed(items, i, responses, done) ==
  IF i > Len(items) THEN [response |-> Ok(responses), calls |-> done]
  ELSE Only({ BatchLoop_SkipFailed(items, i + 1, responses \o r.response.results,
                                   done \o r.calls)
              : r \in {_run_prediction(items[i])} })

\* The list comprehension of main.py:261 from item i on, with the responses
\* and the collaborator calls so far; an exception leaves the comprehension.
RECURSIVE BatchLoop(_, _, _, _)
BatchLoop(items, i, responses, done) ==
  IF i > Len(items) THEN [response |-> Ok(responses), calls |-> done]
  ELSE Only({ IF r.response.status # 200
                THEN [response |-> r.response, calls |-> done \o r.calls]
                ELSE BatchLoop(items, i + 1, responses \o r.response.results,
                               done \o r.calls)
              : r \in {_run_prediction(items[i])} })

-----------------------------------------------------------------------------
(* Route handlers *)

\* POST /predict (main.py:247-251).
predict(payload) ==
  \E r \in {_run_prediction(payload)} :
    /\ request' = [route |-> "/predict", items |-> <<payload>>]
    /\ response' = r.response
    /\ calls' = r.calls
    /\ UNCHANGED artifacts

\* POST /predict/batch (main.py:259-267).
predict_batch(items) ==
  \E r \in {BatchLoop(items, 1, <<>>, <<>>)} :
    /\ request' = [route |-> "/predict/batch", items |-> items]
    /\ response' = r.response
    /\ calls' = r.calls
    /\ UNCHANGED artifacts

-----------------------------------------------------------------------------
(* Inputs and artifacts *)

Levels == 0..MaxScore

Descriptions == {<<>>, <<" ">>, <<"x", " ">>, <<" ", "y">>}

\* The payloads the request schema admits (top_k >= 1, 0 <= threshold <= 1).
PredictionRequests ==
  {PredictionRequest(d, k, th) : d \in Descriptions, k \in 1..MaxTopK, th \in Levels}

CweIds == <<"CWE-79", "CWE-89", "CWE-564", "CWE-20", "CWE-22">>
CapecIds == <<"CAPEC-66", "CAPEC-63", "CAPEC-7", "CAPEC-88", "CAPEC-126">>

Binarizer(name, classes_, raises) ==
  [name |-> name, classes_ |-> classes_, raises |-> raises]

ProbaOut(raises, raw) == [raises |-> raises, raw |-> raw]
HardOut(raises, binary) == [raises |-> raises, binary |-> binary]

Classifier(name, has_n, n, has_proba, proba, hard) ==
  [name |-> name, has_n_features_in_ |-> has_n, n_features_in_ |-> n,
   has_predict_proba |-> has_proba, predict_proba |-> proba, predict |-> hard]

Vectorizer(raises, has_shape, n) ==
  [raises |-> raises, has_shape |-> has_shape, n_features |-> n]

\* One (negative, positive) pair, one three-column entry, one column, one
\* 1-d entry: the per-class entries of a list-shaped predict_proba result.
PairEntries == {ndarray2(<< <<MaxScore - p, p>> >>, 2) : p \in Levels}
MultiEntries ==
  {ndarray2(<< <<a, b, MaxScore - a - b>> >>, 3) :
     a \in Levels, b \in Levels} \cap
  {ndarray2(<< <<a, b, c>> >>, 3) : a \in Levels, b \in Levels, c \in Levels}
ColumnEntries == {ndarray2(<< <<p>> >>, 1) : p \in Levels}
VectorEntries == {ndarray1(<<p>>) : p \in Levels}

\* The predict_proba results of a classifier of n classes for one sample.
RawOutputs(n) ==
  {RawNone}
  \cup {RawList(e) : e \in [1..n -> PairEntries \cup MultiEntries]}
  \cup {RawList(e) : e \in [1..n -> ColumnEntries]}
  \cup {RawList(e) : e \in [1..n -> VectorEntries]}
  \cup {RawArray(ndarray2(<<r>>, n)) : r \in [1..n -> Levels]}
  \cup {RawArray(ndarray1(r)) : r \in [1..n -> Levels]}
  \cup {RawArray(ndarray2(<<>>, n)), RawArray(ndarray1(<<>>))}

\* The predict results: an exception, no row, or one indicator row.
HardOutputs(n) ==
  {HardOut(TRUE, <<>>), HardOut(FALSE, <<>>)}
  \cup {HardOut(FALSE, <<b>>) : b \in [1..n -> {0, 1}]}

Constantly(out) == [k \in FeatureKeys |-> out]

AllOnes(n) == HardOut(FALSE, << [i \in 1..n |-> 1] >>)

\* A classifier as training/train.py builds it (OneVsRestClassifier): a 2-d
\* predict_proba row, an indicator row, n_features_in_ set.
TrainedClassifier(name, n) ==
  Classifier(name, TRUE, 1, TRUE,
             Constantly(ProbaOut(FALSE, RawArray(ndarray2(<< [i \in 1..n |-> IF i = 1 THEN MaxScore ELSE 0] >>, n)))),
             Constantly(AllOnes(n)))

\* The classifiers the label selector is studied on: every predict_proba
\* result with a fixed predict, and every predict result where predict_proba
\* is absent or yields nothing.
StudiedClassifiers(name, n) ==
  {Classifier(name, TRUE, 1, TRUE, Constantly(ProbaOut(FALSE, raw)), Constantly(AllOnes(n))) :
     raw \in RawOutputs(n)}
  \cup {Classifier(name, TRUE, 1, has, Constantly(ProbaOut(FALSE, raw)), Constantly(hard)) :
          has \in BOOLEAN,
          raw \in {RawNone, RawArray(ndarray2(<<>>, n)),
                   RawArray(ndarray2(<< [i \in 1..n |-> 0] >>, n))},
          hard \in HardOutputs(n)}

NoRequest == [route |-> "", items |-> <<>>]
NoResponse == [status |-> 0, detail |-> NoDetail, results |-> <<>>]

InitLabels ==
  /\ vectorizer = Vectorizer(FALSE, TRUE, 1)
  /\ argsort_kind \in {"stable", "unstable"}
  /\ \E n \in 1..MaxClasses :
       /\ cwe_binarizer = Binarizer("cwe_binarizer", SubSeq(CweIds, 1, n), FALSE)
       /\ capec_binarizer = Binarizer("capec_binarizer", SubSeq(CapecIds, 1, n), FALSE)
       /\ \/ /\ cwe_model \in StudiedClassifiers("cwe_model", n)
             /\ capec_model = TrainedClassifier("capec_model", n)
          \/ /\ cwe_model = TrainedClassifier("cwe_model", n)
             /\ capec_model \in StudiedClassifiers("capec_model", n)
  /\ request = NoRequest
  /\ response = NoResponse
  /\ calls = <<>>

\* One request against the studied classifiers, every top_k and threshold.
LabelRequests ==
  {PredictionRequest(<<" ", "y">>, k, th) : k \in 1..MaxTopK, th \in Levels}

NextLabels ==
  /\ request = NoRequest
  /\ \E payload \in LabelRequests : predict(payload)

SpecLabels == InitLabels /\ [][NextLabels]_vars

-----------------------------------------------------------------------------
(* The orchestrator's artifacts *)

\* The feature widths of two training runs.
Widths == {1, 2}

\* The stages of _predict_labels an artifact can fail at, and "absent": a
\* classifier with no predict_proba.
Stages == {"predict_proba", "normalize", "rank", "predict", "inverse_transform", "absent"}

\* A two-class classifier that answers the features without the term "y"
\* with scores (MaxScore, 0) and those with it with scores (0, 0), and
\* selects both labels; at the feature keys in faulty it fails at stage: it
\* raises in predict_proba, returns a list of bare floats (IndexError in the
\* normalizer), returns a flat array (IndexError in the selector), raises in
\* predict, or returns an indicator row of the wrong width.
StagedClassifier(name, has_n, n, stage, faulty) ==
  LET good(k) == IF "y" \in k THEN <<0, 0>> ELSE <<MaxScore, 0>>
      proba(k) ==
        IF k \notin faulty \/ stage = "absent" THEN ProbaOut(FALSE, RawArray(ndarray2(<<good(k)>>, 2)))
        ELSE IF stage = "predict_proba" THEN ProbaOut(TRUE, RawNone)
        ELSE IF stage = "normalize" THEN ProbaOut(FALSE, RawList(<<ndarray0(MaxScore), ndarray0(0)>>))
        ELSE IF stage = "rank" THEN ProbaOut(FALSE, RawArray(ndarray1(good(k))))
        ELSE ProbaOut(FALSE, RawNone)
      hard(k) ==
        IF k \in faulty /\ stage = "predict" THEN HardOut(TRUE, <<>>)
        ELSE IF k \in faulty /\ stage = "inverse_transform" THEN HardOut(FALSE, << <<1>> >>)
        ELSE AllOnes(2)
  IN Classifier(name, has_n, n, ~(stage = "absent" /\ faulty # {}),
                [k \in FeatureKeys |-> proba(k)], [k \in FeatureKeys |-> hard(k)])

\* Each classifier with its own width attribute, present or not, and at most
\* one of them failing at one stage, for the features with "y" or for all.
InitArtifacts ==
  /\ vectorizer \in {Vectorizer(r, h, n) : r \in BOOLEAN, h \in BOOLEAN, n \in Widths}
  /\ argsort_kind = "stable"
  /\ cwe_binarizer = Binarizer("cwe_binarizer", SubSeq(CweIds, 1, 2), FALSE)
  /\ capec_binarizer = Binarizer("capec_binarizer", SubSeq(CapecIds, 1, 2), FALSE)
  /\ \E hc \in BOOLEAN, nc \in Widths, ha \in BOOLEAN, na \in Widths :
       \E stage \in Stages, faulty \in {{{"y"}}, FeatureKeys} :
         \/ /\ cwe_model = StagedClassifier("cwe_model", hc, nc, stage, faulty)
            /\ capec_model = StagedClassifier("capec_model", ha, na, stage, {})
         \/ /\ cwe_model = StagedClassifier("cwe_model", hc, nc, stage, {})
            /\ capec_model = StagedClassifier("capec_model", ha, na, stage, faulty)
  /\ request = NoRequest
  /\ response = NoResponse
  /\ calls = <<>>

\* The handlers read the artifacts and write nothing that outlives the
\* call, so every call starts from the state the load left.
NextArtifacts ==
  /\ request = NoRequest
  /\ \E payload \in PredictionRequests : predict(payload)

SpecArtifacts == InitArtifacts /\ [][NextArtifacts]_vars

\* The items of a batch: the schema admits 1 to 50 of them.
BatchItems ==
  {PredictionRequest(d, k, th) : d \in Descriptions, k \in 1..MaxTopK, th \in {0, MaxScore}}

Batches == UNION {[1..n -> BatchItems] : n \in 1..MaxBatch}

\* Artifacts of one training run; at most one classifier fails, at one
\* stage, for the features with "y".
Init ==
  /\ vectorizer = Vectorizer(FALSE, TRUE, 1)
  /\ argsort_kind = "stable"
  /\ cwe_binarizer = Binarizer("cwe_binarizer", SubSeq(CweIds, 1, 2), FALSE)
  /\ capec_binarizer = Binarizer("capec_binarizer", SubSeq(CapecIds, 1, 2), FALSE)
  /\ \E stage \in Stages :
       \/ /\ cwe_model = StagedClassifier("cwe_model", TRUE, 1, stage, {{"y"}})
          /\ capec_model = StagedClassifier("capec_model", TRUE, 1, stage, {})
       \/ /\ cwe_model = StagedClassifier("cwe_model", TRUE, 1, stage, {})
          /\ capec_model = StagedClassifier("capec_model", TRUE, 1, stage, {{"y"}})
  /\ request = NoRequest
  /\ response = NoResponse
  /\ calls = <<>>

Next ==
  /\ request = NoRequest
  /\ \/ \E payload \in PredictionRequests : predict(payload)
     \/ \E items \in Batches : predict_batch(items)

Spec == Init /\ [][Next]_vars

-----------------------------------------------------------------------------
(* Reading a state after POST /predict *)

Taxonomies == {"cwe", "capec"}

ModelOf(t) == IF t = "cwe" THEN cwe_model ELSE capec_model
BinarizerOf(t) == IF t = "cwe" THEN cwe_binarizer ELSE capec_binarizer

Single == request.route = "/predict"
Payload == request.items[1]
Succeeded == Single /\ response.status = 200

Invoked(obj, method) == \E i \in 1..Len(calls) : calls[i] = Call(obj, method)

IsScored(e) == e.score # None

IndexOf(seq, x) == CHOOSE i \in 1..Len(seq) : seq[i] = x

\* What taxonomy t's artifacts do for the payload, and what came back:
\*   answer, hard    what predict_proba and predict give for the features
\*   norm            the normalizer's result on the answer
\*   hasArray        predict_proba exists, did not raise, and the normalizer
\*                   gave a non-empty array
\*   hasRow, row     the array is 2-d; its first row, which the selector ranks
\*   passing         the positions of row at or above the threshold
\*   returned        the sequence returned for t (empty if the call failed)
\*   scored, emitted its scored entries; their class indices
\*   hardLabels      the labels the codec decodes from the hard-label row
Observed(t) ==
  Only({ Only({ Only({
    [t |-> t,
     classes_ |-> BinarizerOf(t).classes_,
     answer |-> answer,
     hard |-> hard,
     norm |-> norm,
     hasArray |-> hasArray,
     hasRow |-> hasArray /\ norm.arr.ndim = 2,
     row |-> row,
     passing |-> {i \in 1..Len(row) : row[i] >= Payload.threshold},
     returned |-> returned,
     scored |-> scored,
     emitted |-> [i \in 1..Len(scored) |-> IndexOf(BinarizerOf(t).classes_, scored[i].id)],
     hardLabels |-> IF hard.binary = <<>> THEN <<>>
                    ELSE IF Len(hard.binary[1]) # Len(BinarizerOf(t).classes_) THEN <<>>
                    ELSE DecodeRow(BinarizerOf(t).classes_, hard.binary[1], 1)]
    : row \in {IF hasArray /\ norm.arr.ndim = 2 THEN norm.arr.rows[1] ELSE <<>>},
      scored \in {SelectSeq(returned, IsScored)} })
    : hasArray \in {/\ ModelOf(t).has_predict_proba
                    /\ ~answer.raises
                    /\ norm.exc = ""
                    /\ ~norm.isNone
                    /\ size(norm.arr) # 0} })
    : answer \in {ModelOf(t).predict_proba[transform(strip(Payload.description)).terms]},
      hard \in {ModelOf(t).predict[transform(strip(Payload.description)).terms]},
      norm \in {_ensure_probability_array(
                  ModelOf(t).predict_proba[transform(strip(Payload.description)).terms].raw)},
      returned \in {IF response.status # 200 THEN <<>>
                    ELSE IF t = "cwe" THEN response.results[1].cwe
                    ELSE response.results[1].capec} })

-----------------------------------------------------------------------------
(* C1 *)

\* C1: a successful prediction returns at most top_k entries for cwe and at
\* most top_k for capec, whether the entries carry scores or not.
C1_LengthAtMostTopK ==
  Succeeded =>
    /\ Len(response.results[1].cwe) <= Payload.top_k
    /\ Len(response.results[1].capec) <= Payload.top_k

\* More classes pass the threshold than top_k, and top_k scored entries are
\* returned.
C1_Witness ==
  /\ Succeeded
  /\ \E t \in Taxonomies : \E v \in {Observed(t)} :
       /\ v.hasRow
       /\ Cardinality(v.passing) > Payload.top_k
       /\ Len(v.returned) = Payload.top_k
       /\ IsScored(v.returned[1])

-----------------------------------------------------------------------------
(* C2 *)

\* C2: every returned score is at least the threshold, and a class whose
\* score equals the threshold is returned whenever the top_k candidates
\* include it (no more than top_k classes pass).
C2_ScoreAtLeastThreshold ==
  Succeeded =>
    \A t \in Taxonomies : \A v \in {Observed(t)} :
      /\ \A i \in 1..Len(v.returned) :
           IsScored(v.returned[i]) => v.returned[i].score >= Payload.threshold
      /\ (v.hasRow /\ Cardinality(v.passing) <= Payload.top_k) =>
           \A c \in v.passing :
             v.row[c] = Payload.threshold =>
               \E i \in 1..Len(v.scored) :
                 v.scored[i].score = Payload.threshold /\ v.emitted[i] = c

\* A class is returned with a score equal to a non-zero threshold.
C2_Witness ==
  /\ Succeeded
  /\ Payload.threshold > 0
  /\ \E t \in Taxonomies : \E v \in {Observed(t)} : \E i \in 1..Len(v.returned) :
       v.returned[i].score = Payload.threshold

-----------------------------------------------------------------------------
(* C3 *)

NonIncreasing(v) ==
  \A i \in 1..Len(v.scored) : \A j \in 1..Len(v.scored) :
    i < j => v.scored[i].score >= v.scored[j].score

\* i before j, equal scores: the class index of the earlier one is lower
\* (lowerFirst) or higher.
TiesOrdered(v, lowerFirst) ==
  \A i \in 1..Len(v.scored) : \A j \in 1..Len(v.scored) :
    (i < j /\ v.scored[i].score = v.scored[j].score) =>
      IF lowerFirst THEN v.emitted[i] < v.emitted[j] ELSE v.emitted[i] > v.emitted[j]

\* C3 as stated: scores are non-increasing and equal scores appear in class
\* index order, lower index first.
C3_StableDescending ==
  Succeeded =>
    \A t \in Taxonomies : \A v \in {Observed(t)} :
      NonIncreasing(v) /\ TiesOrdered(v, TRUE)

\* C3 amended: scores are non-increasing, and equal scores appear in the
\* reverse of the order np.argsort gave them: higher class index first when
\* the sort keeps equal keys in index order.
C3_ReversedAscending ==
  Succeeded =>
    \A t \in Taxonomies : \A v \in {Observed(t)} :
      NonIncreasing(v) /\ TiesOrdered(v, argsort_kind # "stable")

\* Two classes are returned with the same score, the higher class index
\* first, by a build whose sort keeps equal keys in index order.
C3_Witness ==
  /\ Succeeded
  /\ argsort_kind = "stable"
  /\ \E t \in Taxonomies : \E v \in {Observed(t)} :
       \E i \in 1..Len(v.scored) : \E j \in 1..Len(v.scored) :
         /\ i < j
         /\ v.scored[i].score = v.scored[j].score
         /\ v.emitted[i] > v.emitted[j]

-----------------------------------------------------------------------------
(* C4 *)

\* A walk over the whole sorted pool that stops after top_k emitted entries:
\* the indices it emits.
FullWalk(v) ==
  LET Passes(idx) == idx \in v.passing
  IN Only({ SubSeq(passing, 1, Min(Payload.top_k, Len(passing)))
            : passing \in {SelectSeq(Reverse(argsort(v.row, argsort_kind)), Passes)} })

\* C4: on the probability path the number of scored entries is
\* min(top_k, P), P the number of classes at or above the threshold; no class
\* left out scores higher than a returned one; and the entries are those a
\* walk over the whole sorted pool, counting only emitted entries, returns.
C4_TopKCountsEmitted ==
  Succeeded =>
    \A t \in Taxonomies : \A v \in {Observed(t)} :
      v.hasRow =>
        /\ Len(v.scored) = Min(Payload.top_k, Cardinality(v.passing))
        /\ \A i \in 1..Len(v.scored) : \A c \in 1..Len(v.row) :
             (\A j \in 1..Len(v.scored) : v.emitted[j] # c) =>
               v.row[c] <= v.scored[i].score
        /\ v.emitted = FullWalk(v)

\* An unsorted row of more than top_k classes, of which some but not all
\* pass the threshold.
C4_Witness ==
  /\ Succeeded
  /\ \E t \in Taxonomies : \E v \in {Observed(t)} :
       /\ v.hasRow
       /\ Len(v.row) > Payload.top_k
       /\ v.row[1] < v.row[2]
       /\ v.passing # {}
       /\ Cardinality(v.passing) < Len(v.row)
       /\ Len(v.scored) = Cardinality(v.passing)

-----------------------------------------------------------------------------
(* C5 *)

\* The probability path emits nothing: no probability surface, a None or
\* empty array, or a row with every class below the threshold.
ProbEmitsNothing(v) ==
  \/ ~ModelOf(v.t).has_predict_proba
  \/ /\ ~v.answer.raises
     /\ v.norm.exc = ""
     /\ v.norm.isNone \/ size(v.norm.arr) = 0
  \/ v.hasRow /\ v.passing = {}

\* Nothing the taxonomy's collaborators do for the payload raises.
Clean(v) ==
  /\ ModelOf(v.t).has_predict_proba => ~v.answer.raises /\ v.norm.exc = ""
  /\ v.hasArray => v.hasRow /\ Len(v.row) <= Len(v.classes_)
  /\ ~v.hard.raises
  /\ ~BinarizerOf(v.t).raises
  /\ \A r \in 1..Len(v.hard.binary) : Len(v.hard.binary[r]) = Len(v.classes_)

Unscored(labels) == [i \in 1..Len(labels) |-> LabelScore(labels[i], None)]

\* C5: predict is invoked only when the probability path emitted nothing,
\* and then always; the fallback returns the first min(top_k, n) decoded
\* labels in decoding order with score None, whatever the threshold; a
\* returned sequence is all scored or all unscored; and when nothing raises
\* the call succeeds, with an empty sequence if both paths yield nothing.
C5_FallbackExactlyWhenEmpty ==
  Single =>
    \A c \in {Observed("cwe")} : \A a \in {Observed("capec")} :
      /\ \A v \in {c, a} :
           /\ Invoked(ModelOf(v.t).name, "predict") => ProbEmitsNothing(v)
           /\ Succeeded =>
                /\ ProbEmitsNothing(v) =>
                     /\ Invoked(ModelOf(v.t).name, "predict")
                     /\ v.returned =
                          Unscored(SubSeq(v.hardLabels, 1,
                                          Min(Payload.top_k, Len(v.hardLabels))))
                /\ \/ \A i \in 1..Len(v.returned) : IsScored(v.returned[i])
                   \/ \A i \in 1..Len(v.returned) : ~IsScored(v.returned[i])
      /\ ( /\ strip(Payload.description) # <<>>
           /\ ~vectorizer.raises
           /\ FeatureCheck(transform(strip(Payload.description))).status = 200
           /\ Clean(c) /\ Clean(a) ) => Succeeded

\* A row whose every class is below the threshold, and more hard labels
\* than top_k: top_k unscored labels come back.
C5_Witness ==
  /\ Succeeded
  /\ \E t \in Taxonomies : \E v \in {Observed(t)} :
       /\ v.hasRow
       /\ v.passing = {}
       /\ Len(v.hardLabels) > Payload.top_k
       /\ Len(v.returned) = Payload.top_k
       /\ ~IsScored(v.returned[1])

-----------------------------------------------------------------------------
(* C10 *)

\* The class each position of the normalized row came from: entry i of a
\* list contributes as many positions as the column built from it is wide;
\* an array contributes its columns in order.
Owners(v) ==
  IF v.answer.raw.kind = "list"
    THEN Concat([i \in 1..Len(v.answer.raw.entries) |->
                   [j \in 1..EntryColumn(v.answer.raw.entries[i]).arr.shape[2] |-> i]])
    ELSE [j \in 1..Len(v.row) |-> j]

\* C10: whenever predict_proba returned a non-null output that the
\* normalizer accepted, the selector ranks a row with exactly one position
\* per class, position i holding class i's probability.
C10_RowAlignedWithClasses ==
  Single =>
    \A t \in Taxonomies : \A v \in {Observed(t)} :
      (Invoked(ModelOf(t).name, "predict_proba") /\ v.hasArray) =>
        /\ v.hasRow
        /\ Owners(v) = [i \in 1..Len(v.classes_) |-> i]

-----------------------------------------------------------------------------
(* C6 *)

IsTransform(c) == c = Call("vectorizer", "transform")

EmptyItems == {i \in 1..Len(request.items) : strip(request.items[i].description) = <<>>}

\* C6 as stated: a call that fails with the empty-description error has
\* invoked no collaborator, in predict and in predict_batch alike.
C6_NoModelTouch ==
  (response.status = 400) => calls = <<>>

\* C6 amended: a call that fails with the empty-description error has
\* invoked nothing for the empty item or any item after it. predict has
\* invoked nothing at all; predict_batch has invoked the extractor once for
\* each item before the first empty one, and for no other.
C6_NoModelTouchForFailingItem ==
  (response.status = 400) =>
    /\ response.detail = EmptyDescription
    /\ EmptyItems # {}
    /\ \E f \in EmptyItems :
         /\ \A g \in EmptyItems : f <= g
         /\ Len(SelectSeq(calls, IsTransform)) = f - 1
         /\ f = 1 => calls = <<>>

\* A batch whose second item is the first empty one: the first item was
\* evaluated, and the call fails with the empty-description error.
C6_Witness ==
  /\ request.route = "/predict/batch"
  /\ response.status = 400
  /\ 1 \notin EmptyItems
  /\ 2 \in EmptyItems
  /\ calls # <<>>

-----------------------------------------------------------------------------
(* C7 *)

Extracted ==
  /\ Single
  /\ strip(Payload.description) # <<>>
  /\ ~vectorizer.raises

Differs(model) == vectorizer.n_features # model.n_features_in_

\* C7 as stated: a feature width that differs from the width either
\* classifier expects always fails the request with the mismatch error,
\* with no classifier invoked, whether or not the classifier exposes
\* n_features_in_.
C7_MismatchAlwaysFails ==
  (Extracted /\ (Differs(cwe_model) \/ Differs(capec_model))) =>
    /\ response.status = 500
    /\ response.detail.msg = "Model-vectorizer mismatch"
    /\ calls = <<Call("vectorizer", "transform")>>

Checked(model) == model.has_n_features_in_ /\ Differs(model)

\* C7 amended: when the features expose their shape and their width
\* differs from the n_features_in_ of a classifier that exposes it, the
\* request fails with the mismatch error naming the first such taxonomy
\* (CWE before CAPEC) and both widths, no classifier is invoked and no
\* result is returned; a classifier without n_features_in_ is not checked.
C7_ExposedMismatchFails ==
  (Extracted /\ vectorizer.has_shape /\ (Checked(cwe_model) \/ Checked(capec_model))) =>
    /\ response.status = 500
    /\ response.results = <<>>
    /\ response.detail =
         IF Checked(cwe_model)
           THEN Mismatch("CWE", vectorizer.n_features, cwe_model.n_features_in_)
           ELSE Mismatch("CAPEC", vectorizer.n_features, capec_model.n_features_in_)
    /\ calls = <<Call("vectorizer", "transform")>>

\* The CWE classifier expects another width but does not expose it; the
\* CAPEC classifier exposes its own, which differs too: the error names CAPEC.
C7_Witness ==
  /\ Extracted
  /\ Differs(cwe_model) /\ ~cwe_model.has_n_features_in_
  /\ Checked(capec_model)
  /\ response.status = 500
  /\ response.detail.model = "CAPEC"

-----------------------------------------------------------------------------
(* C8 *)

\* C8: a batch returns, in input order, what predict returns for each item,
\* when every item succeeds; otherwise it fails with the error of the first
\* failing item, returns no results, and evaluates no item after it.
C8_BatchAllOrNothing ==
  (request.route = "/predict/batch") =>
    \A rs \in {[i \in 1..Len(request.items) |-> _run_prediction(request.items[i])]} :
      \A failing \in {{i \in 1..Len(rs) : rs[i].response.status # 200}} :
        IF failing = {}
          THEN /\ response.status = 200
               /\ Len(response.results) = Len(request.items)
               /\ \A i \in 1..Len(rs) : response.results[i] = rs[i].response.results[1]
               /\ calls = Concat([i \in 1..Len(rs) |-> rs[i].calls])
          ELSE \E f \in failing :
                 /\ \A g \in failing : f <= g
                 /\ response = rs[f].response
                 /\ response.results = <<>>
                 /\ calls = Concat([i \in 1..f |-> rs[i].calls])

\* The first item of a batch succeeds on its own and the batch fails with a
\* server error raised for a later item: nothing of the first is returned.
C8_Witness ==
  /\ request.route = "/predict/batch"
  /\ Len(request.items) >= 2
  /\ _run_prediction(request.items[1]).response.status = 200
  /\ response.status = 500
  /\ response.results = <<>>

-----------------------------------------------------------------------------
(* C9 *)

\* The probability path of the taxonomy raises: in predict_proba, in the
\* normalizer, or in the selector (an array that is not 2-d, or a passing
\* candidate past the end of classes_).
ProbaFails(v) ==
  /\ ModelOf(v.t).has_predict_proba
  /\ \/ v.answer.raises
     \/ v.norm.exc # ""
     \/ v.hasArray /\ ~v.hasRow
     \/ v.hasRow /\ \E c \in v.passing : c > Len(v.classes_) /\ c \in
          {Reverse(argsort(v.row, argsort_kind))[k] : k \in 1..Min(Payload.top_k, Len(v.row))}

\* The fallback of the taxonomy is reached and raises, in predict or in
\* inverse_transform.
HardFails(v) ==
  /\ ~ProbaFails(v)
  /\ ProbEmitsNothing(v)
  /\ \/ v.hard.raises
     \/ BinarizerOf(v.t).raises
     \/ \E r \in 1..Len(v.hard.binary) : Len(v.hard.binary[r]) # Len(v.classes_)

Cause(v) ==
  IF ProbaFails(v)
    THEN IF v.answer.raises THEN "RuntimeError"
         ELSE IF v.norm.exc # "" THEN v.norm.exc
         ELSE "IndexError"
    ELSE IF v.hard.raises THEN "RuntimeError" ELSE "ValueError"

\* C9: an exception raised by the extractor, or by predict_proba, the
\* normalizer, the selector, predict or inverse_transform of either
\* taxonomy, fails the request with the prediction error carrying its cause:
\* no result is returned, and predict is not invoked after a failure on the
\* probability path. The empty-description and mismatch errors are returned
\* as raised.
C9_FailuresSurface ==
  Single =>
    IF strip(Payload.description) = <<>>
      THEN response = HTTPException(400, EmptyDescription)
    ELSE IF vectorizer.raises
      THEN response = HTTPException(500, PredictionFailed("ValueError"))
    ELSE IF FeatureCheck(transform(strip(Payload.description))).status # 200
      THEN response.status = 500 /\ response.detail.msg = "Model-vectorizer mismatch"
    ELSE \A c \in {Observed("cwe")} : \A a \in {Observed("capec")} :
           /\ (ProbaFails(c) \/ HardFails(c)) =>
                /\ response = HTTPException(500, PredictionFailed(Cause(c)))
                /\ ProbaFails(c) => ~Invoked("cwe_model", "predict")
                /\ ~Invoked("capec_model", "predict_proba")
                /\ ~Invoked("capec_model", "predict")
           /\ (~(ProbaFails(c) \/ HardFails(c)) /\ (ProbaFails(a) \/ HardFails(a))) =>
                /\ response = HTTPException(500, PredictionFailed(Cause(a)))
                /\ ProbaFails(a) => ~Invoked("capec_model", "predict")
           /\ response.status = 200 =>
                ~(ProbaFails(c) \/ HardFails(c) \/ ProbaFails(a) \/ HardFails(a))

\* CWE was predicted, then the probability path of CAPEC raised: the
\* request fails with the prediction error and CAPEC's predict is not invoked.
C9_Witness ==
  /\ Extracted
  /\ Invoked("cwe_model", "predict_proba")
  /\ Invoked("capec_model", "predict_proba")
  /\ ProbaFails(Observed("capec"))
  /\ response.status = 500
  /\ response.detail.msg = "Prediction failed"
  /\ response.results = <<>>

====
